---- MODULE Spec2Model ----
(***************************************************************************)
(* data-sifter: load a CSV dataset into the PostgreSQL table "data", run   *)
(* one operator query, export the result as CSV.                           *)
(*                                                                         *)
(* The state machine follows App::run of src/src/main.rs with read_csv and *)
(* write_csv inlined; the export stage can also be driven through          *)
(* QueryOutput::output_query_results of src/src/database.rs, which writes  *)
(* to a sink handed in by its caller.  The connection pool, the store and  *)
(* the file system are the environment: their answers are nondeterministic *)
(* where the code cannot decide them.                                      *)
(***************************************************************************)
EXTENDS Integers, Sequences, FiniteSets, TLC

\* ------------------------------------------------------------------ bounds
MaxRows == 2      \* data records in the source file
MaxPool == 2      \* capacity of the connection pool
MaxResult == 2    \* items a result cursor yields

\* ------------------------------------------------------------- input data
\* A field is its text, one character per element.
fx == <<"x">>
fy == <<"y">>
fq == <<"'">>
fqq == <<"'", "'">>
finj == <<"x", "'", ")", ",", "(", "'", "y">>

\* One item of the reader: a parsed record, or one csv::Reader cannot parse.
Rec(f) == [ok |-> TRUE, fields |-> f]
Malformed == [ok |-> FALSE, fields |-> <<>>]

Headers == {Rec(<<"a">>), Rec(<<"a", "b">>), Rec(<<"a", "a">>), Malformed}

Records == {Rec(<<fx>>), Rec(<<fy>>), Rec(<<fqq>>), Rec(<<finj>>), Rec(<<fx, fy>>), Rec(<<fx, fq>>), Malformed}

RecordSeqs == UNION {[1..n -> Records] : n \in 0..MaxRows}

\* csv::Reader::from_reader leaves `flexible` off: a record whose field
\* count differs from the first record's is an Err item of records().
Flexible == FALSE

\* ---------------------------------------------------------------- helpers
RECURSIVE JoinSeqs(_, _)
JoinSeqs(parts, sep) ==
  IF parts = <<>> THEN <<>>
  ELSE IF Len(parts) = 1 THEN parts[1]
  ELSE parts[1] \o sep \o JoinSeqs(Tail(parts), sep)

HasDuplicates(s) == \E i, j \in 1..Len(s) : i /= j /\ s[i] = s[j]

\* format!("'{}'", value)
QuoteValue(value) == <<"'">> \o value \o <<"'">>

Reverse(q) == [i \in 1..Len(q) |-> q[Len(q) + 1 - i]]

\* InsertValuesText with the fields walked from the last to the first.
InsertValuesTextReversed(record) ==
  <<"(">> \o JoinSeqs([i \in 1..Len(record) |-> QuoteValue(Reverse(record)[i])], <<",", " ">>) \o <<")">>

\* The text between "VALUES " and the end of the insert statement.
InsertValuesText(record) ==
  <<"(">> \o JoinSeqs([i \in 1..Len(record) |-> QuoteValue(record[i])], <<",", " ">>) \o <<")">>

\* The store's reading of a VALUES list of string literals:
\*   tuple {, tuple}   tuple = ( literal {, literal} )   literal = ' ... '
\* with '' inside a literal standing for one quote.  The result is the
\* sequence of tuples, or Reject for a syntax error.
Reject == [ok |-> FALSE, rows |-> <<>>]
Accept(tuples) == [ok |-> TRUE, rows |-> tuples]

RECURSIVE ParseValues(_, _, _, _, _, _)
ParseValues(s, i, mode, lit, tup, tups) ==
  IF i > Len(s) THEN
    IF mode = "afttup" THEN Accept(tups) ELSE Reject
  ELSE IF mode /= "lit" /\ s[i] = " " THEN ParseValues(s, i + 1, mode, lit, tup, tups)
  ELSE IF mode = "open" THEN
    IF s[i] = "(" THEN ParseValues(s, i + 1, "val", <<>>, <<>>, tups) ELSE Reject
  ELSE IF mode = "val" THEN
    IF s[i] = "'" THEN ParseValues(s, i + 1, "lit", <<>>, tup, tups) ELSE Reject
  ELSE IF mode = "lit" THEN
    IF s[i] = "'" THEN
      IF i < Len(s) /\ s[i + 1] = "'"
      THEN ParseValues(s, i + 2, "lit", Append(lit, "'"), tup, tups)
      ELSE ParseValues(s, i + 1, "aftval", <<>>, Append(tup, lit), tups)
    ELSE ParseValues(s, i + 1, "lit", Append(lit, s[i]), tup, tups)
  ELSE IF mode = "aftval" THEN
    IF s[i] = "," THEN ParseValues(s, i + 1, "val", <<>>, tup, tups)
    ELSE IF s[i] = ")" THEN ParseValues(s, i + 1, "afttup", <<>>, <<>>, Append(tups, tup))
    ELSE Reject
  ELSE \* afttup
    IF s[i] = "," THEN ParseValues(s, i + 1, "open", <<>>, <<>>, tups) ELSE Reject

Range(q) == {q[i] : i \in 1..Len(q)}

IndexOf(q, x) == CHOOSE i \in 1..Len(q) : q[i] = x

\* What "INSERT INTO data (columns) VALUES text" adds to the table t: the
\* rows in t's column order, or Reject (no table; a column list that is
\* not t's columns, all of which are NOT NULL; a syntax error; a tuple
\* whose length is not the length of the column list).
StoreInsert(t, columns, text) ==
  LET parsed == ParseValues(text, 1, "open", <<>>, <<>>, <<>>)
  IN IF ~t.exists \/ HasDuplicates(columns) \/ Range(columns) /= Range(t.cols) THEN Reject
     ELSE IF ~parsed.ok THEN Reject
     ELSE IF \E k \in 1..Len(parsed.rows) : Len(parsed.rows[k]) /= Len(columns) THEN Reject
     ELSE Accept([k \in 1..Len(parsed.rows) |->
                   [j \in 1..Len(t.cols) |-> parsed.rows[k][IndexOf(columns, t.cols[j])]]])

\* Does the store accept "CREATE TABLE data (c1 VARCHAR(256) NOT NULL, ...)"
\* when its table "data" is t?
StoreAcceptsCreate(t, columns) == ~t.exists /\ ~HasDuplicates(columns)

\* ------------------------------------------------------------------ state
VARIABLES
  csvFile,    \* the source file: [header, records]
  outFile,    \* the export destination: "absent", "old" (there before the export, untouched), "new",
              \* or "empty" (left with no record by an earlier run)
  poolSize,   \* capacity of connection_pool
  borrowed,   \* connections out of the pool
  table,      \* the store's table "data": [exists, cols, rows]
  tableAtStart,  \* history: the table as the run found it
  pc,         \* position of App::run
  schema,     \* read_csv: the Schema
  nextRec,    \* read_csv: position of csv_input.records()
  units,      \* read_csv: the futures pushed, [record, st]
  results,    \* read_csv: what the FuturesUnordered has yielded, in completion order
  ingest,     \* what read_csv returned: "none", "ok" or the error
  outcome,    \* how run ended: "running", "ok", "err", "panic"
  error,      \* the error run ended with
  exporter,   \* which export writer runs: "none", "write_csv", "output_query_results"
  yielded,    \* the items the result cursor has yielded so far
  sink,       \* the records written to the csv writer
  rowErr,     \* write_csv: the first Err among the collected results
  query,      \* the operator's SQL: "none", "select_all" (SELECT * FROM data) or "other"
  ret,        \* what the export writer returned: "none", "true", "false"
  path,       \* config.rs: the file at the config path, [exists, text]
  configPc,   \* config.rs: "idle", or "opened" inside write_to
  writing,    \* config.rs: the Config write_to is writing
  written,    \* config.rs: what the last write_to returned, [res, config]
  loaded,     \* config.rs: what the last load returned, [res, config]
  calls       \* config.rs: calls of load and write_to made

vars == <<csvFile, outFile, poolSize, borrowed, table, tableAtStart, pc, schema, nextRec, units,
          results, ingest, outcome, error, exporter, yielded, sink, rowErr, query, ret,
          path, configPc, writing, written, loaded, calls>>

runVars == <<csvFile, outFile, poolSize, borrowed, table, tableAtStart, pc, schema, nextRec, units,
             results, ingest, outcome, error, exporter, yielded, sink, rowErr, query, ret>>
configVars == <<path, configPc, writing, written, loaded, calls>>

ingestVars == <<csvFile, poolSize, table, tableAtStart, schema, nextRec, units, results, ingest>>
exportVars == <<exporter, yielded, sink, rowErr, query, ret>>

\* Config::default()
DefaultConfig == [postgres_url |-> <<>>]

NoFile == [exists |-> FALSE, text |-> <<>>]

\* App::run reads no configuration: config.rs is not called.
ConfigUnused ==
  /\ path = NoFile
  /\ configPc = "idle"
  /\ writing = DefaultConfig
  /\ written = [res |-> "none", config |-> DefaultConfig]
  /\ loaded = [res |-> "none", config |-> DefaultConfig]
  /\ calls = 0

NoTable == [exists |-> FALSE, cols |-> <<>>, rows |-> <<>>]

\* What an earlier run may have left in the store.  A row carries the
\* unit that inserted it (0: an earlier run).
PriorTables ==
  {NoTable,
   [exists |-> TRUE, cols |-> <<"a">>, rows |-> <<[by |-> 0, vals |-> <<fx>>]>>],
   [exists |-> TRUE, cols |-> <<"b">>, rows |-> <<[by |-> 0, vals |-> <<fy>>]>>]}

Finished(st) == st \in {"ok", "failed"}

AllFinished == \A u \in 1..Len(units) : Finished(units[u].st)

InFlight == {u \in 1..Len(units) : units[u].st = "executing"}

Init ==
  /\ csvFile \in [header : Headers, records : RecordSeqs]
  /\ outFile \in {"absent", "old"}
  /\ poolSize \in 1..MaxPool
  /\ borrowed = 0
  /\ table \in PriorTables
  /\ tableAtStart = table
  /\ pc = "headers"
  /\ schema = <<>>
  /\ nextRec = 1
  /\ units = <<>>
  /\ results = <<>>
  /\ ingest = "none"
  /\ outcome = "running"
  /\ error = "none"
  /\ exporter = "none"
  /\ yielded = <<>>
  /\ sink = <<>>
  /\ rowErr = "none"
  /\ query = "none"
  /\ ret = "none"
  /\ ConfigUnused

\* `?` inside read_csv: read_csv returns the error and run returns it.
IngestFails(kind) ==
  /\ ingest' = kind
  /\ outcome' = "err"
  /\ error' = kind
  /\ pc' = "done"

\* ------------------------------------------------------- read_csv: schema
\* csv_input.headers()? and Schema::from
ReadHeaders ==
  /\ pc = "headers"
  /\ IF csvFile.header.ok
     THEN /\ schema' = csvFile.header.fields
          /\ pc' = "acquire_ddl"
          /\ UNCHANGED <<ingest, outcome, error>>
     ELSE /\ IngestFails("ParseError")
          /\ UNCHANGED schema
  /\ UNCHANGED <<csvFile, tableAtStart, outFile, poolSize, borrowed, table, nextRec, units, results>>
  /\ UNCHANGED exportVars
  /\ UNCHANGED configVars

\* self.connection_pool.acquire().await?
AcquireForTable ==
  /\ pc = "acquire_ddl"
  /\ \/ /\ borrowed < poolSize
        /\ borrowed' = borrowed + 1
        /\ pc' = "drop"
        /\ UNCHANGED <<ingest, outcome, error>>
     \/ /\ IngestFails("ConnectionError")
        /\ UNCHANGED borrowed
  /\ UNCHANGED <<csvFile, tableAtStart, outFile, poolSize, table, schema, nextRec, units, results>>
  /\ UNCHANGED exportVars
  /\ UNCHANGED configVars

\* DropTable with the result of the drop discarded, not propagated.
DropTableIgnoresRejection ==
  /\ pc = "drop"
  /\ \/ table' = NoTable
     \/ UNCHANGED table
  /\ pc' = "create"
  /\ UNCHANGED <<borrowed, ingest, outcome, error>>
  /\ UNCHANGED <<csvFile, tableAtStart, outFile, poolSize, schema, nextRec, units, results>>
  /\ UNCHANGED exportVars
  /\ UNCHANGED configVars

\* DROP TABLE IF EXISTS data
DropTable ==
  /\ pc = "drop"
  /\ \/ /\ table' = NoTable
        /\ pc' = "create"
        /\ UNCHANGED <<borrowed, ingest, outcome, error>>
     \/ /\ IngestFails("QueryError")
        /\ borrowed' = borrowed - 1
        /\ UNCHANGED table
  /\ UNCHANGED <<csvFile, tableAtStart, outFile, poolSize, schema, nextRec, units, results>>
  /\ UNCHANGED exportVars
  /\ UNCHANGED configVars

\* CreateTable with the connection of the schema block kept out of the pool.
CreateTableKeepsConnection ==
  /\ pc = "create"
  /\ \/ /\ StoreAcceptsCreate(table, schema)
        /\ table' = [exists |-> TRUE, cols |-> schema, rows |-> <<>>]
        /\ pc' = "records"
        /\ UNCHANGED <<ingest, outcome, error>>
     \/ /\ IngestFails("QueryError")
        /\ UNCHANGED table
  /\ UNCHANGED <<csvFile, tableAtStart, outFile, poolSize, borrowed, schema, nextRec, units, results>>
  /\ UNCHANGED exportVars
  /\ UNCHANGED configVars

\* CREATE TABLE data (...); the connection goes back at the end of the block.
CreateTable ==
  /\ pc = "create"
  /\ \/ /\ StoreAcceptsCreate(table, schema)
        /\ table' = [exists |-> TRUE, cols |-> schema, rows |-> <<>>]
        /\ pc' = "records"
        /\ UNCHANGED <<ingest, outcome, error>>
     \/ /\ IngestFails("QueryError")
        /\ UNCHANGED table
  /\ borrowed' = borrowed - 1
  /\ UNCHANGED <<csvFile, tableAtStart, outFile, poolSize, schema, nextRec, units, results>>
  /\ UNCHANGED exportVars
  /\ UNCHANGED configVars

\* ------------------------------------------------------ read_csv: records
\* ReadRecord with a record that fails the checks skipped, not fatal.
ReadRecordSkipsBadRows ==
  /\ pc = "records"
  /\ nextRec <= Len(csvFile.records)
  /\ LET record == csvFile.records[nextRec] IN
       IF ~record.ok \/ Len(record.fields) /= Len(schema)
       THEN UNCHANGED units
       ELSE units' = Append(units, [record |-> record.fields, st |-> "created"])
  /\ nextRec' = nextRec + 1
  /\ UNCHANGED <<pc, ingest, outcome, error>>
  /\ UNCHANGED <<csvFile, tableAtStart, outFile, poolSize, borrowed, table, schema, results>>
  /\ UNCHANGED exportVars
  /\ UNCHANGED configVars

\* ReadRecord with the insert of the record awaited inside the loop.
ReadRecordRunsInsert ==
  /\ pc = "records"
  /\ nextRec <= Len(csvFile.records)
  /\ LET record == csvFile.records[nextRec] IN
       IF ~record.ok \/ Len(record.fields) /= Len(schema)
       THEN /\ IngestFails("ParseError")
            /\ UNCHANGED <<nextRec, units, table, results>>
       ELSE LET answer == StoreInsert(table, schema, InsertValuesText(record.fields)) IN
            /\ table' = IF answer.ok
                        THEN [table EXCEPT !.rows = @ \o
                               [k \in 1..Len(answer.rows) |-> [by |-> nextRec, vals |-> answer.rows[k]]]]
                        ELSE table
            /\ units' = Append(units, [record |-> record.fields,
                                       st |-> IF answer.ok THEN "ok" ELSE "failed"])
            /\ results' = Append(results, [unit |-> nextRec,
                                           res |-> IF answer.ok THEN "ok" ELSE "QueryError"])
            /\ nextRec' = nextRec + 1
            /\ UNCHANGED <<pc, ingest, outcome, error>>
  /\ UNCHANGED <<csvFile, tableAtStart, outFile, poolSize, borrowed, schema>>
  /\ UNCHANGED exportVars
  /\ UNCHANGED configVars

\* One turn of `for record in csv_input.records()`: the record is checked
\* and its future is pushed; no future is polled before collect.
ReadRecord ==
  /\ pc = "records"
  /\ nextRec <= Len(csvFile.records)
  /\ LET record == csvFile.records[nextRec] IN
       IF ~record.ok \/ (~Flexible /\ Len(record.fields) /= Len(schema))
       THEN /\ IngestFails("ParseError")
            /\ UNCHANGED <<nextRec, units>>
       ELSE IF Len(schema) /= Len(record.fields)
       THEN /\ ingest' = "panic"
            /\ outcome' = "panic"
            /\ error' = "Field list must match"
            /\ pc' = "done"
            /\ UNCHANGED <<nextRec, units>>
       ELSE /\ units' = Append(units, [record |-> record.fields, st |-> "created"])
            /\ nextRec' = nextRec + 1
            /\ UNCHANGED <<pc, ingest, outcome, error>>
  /\ UNCHANGED <<csvFile, tableAtStart, outFile, poolSize, borrowed, table, schema, results>>
  /\ UNCHANGED exportVars
  /\ UNCHANGED configVars

\* The loop ends; futures.collect() polls every future for the first time.
StartCollect ==
  /\ pc = "records"
  /\ nextRec > Len(csvFile.records)
  /\ units' = [u \in 1..Len(units) |-> [units[u] EXCEPT !.st = "waiting"]]
  /\ pc' = "collect"
  /\ UNCHANGED <<csvFile, tableAtStart, outFile, poolSize, borrowed, table, schema, nextRec, results,
                 ingest, outcome, error>>
  /\ UNCHANGED exportVars
  /\ UNCHANGED configVars

\* UnitAcquire with a pool that opens a connection for whoever asks.
UnitAcquireUnbounded(u) ==
  /\ pc = "collect"
  /\ units[u].st = "waiting"
  /\ borrowed' = borrowed + 1
  /\ units' = [units EXCEPT ![u].st = "executing"]
  /\ UNCHANGED <<csvFile, tableAtStart, outFile, poolSize, table, pc, schema, nextRec, results,
                 ingest, outcome, error>>
  /\ UNCHANGED exportVars
  /\ UNCHANGED configVars

\* connection? of unit u: the pool hands out a connection when one is free.
UnitAcquire(u) ==
  /\ pc = "collect"
  /\ units[u].st = "waiting"
  /\ borrowed < poolSize
  /\ borrowed' = borrowed + 1
  /\ units' = [units EXCEPT ![u].st = "executing"]
  /\ UNCHANGED <<csvFile, tableAtStart, outFile, poolSize, table, pc, schema, nextRec, results,
                 ingest, outcome, error>>
  /\ UNCHANGED exportVars
  /\ UNCHANGED configVars

\* connection? of unit u when acquire() resolves to an error.
UnitAcquireFails(u) ==
  /\ pc = "collect"
  /\ units[u].st = "waiting"
  /\ units' = [units EXCEPT ![u].st = "failed"]
  /\ results' = Append(results, [unit |-> u, res |-> "ConnectionError"])
  /\ UNCHANGED <<csvFile, tableAtStart, outFile, poolSize, borrowed, table, pc, schema, nextRec,
                 ingest, outcome, error>>
  /\ UNCHANGED exportVars
  /\ UNCHANGED configVars

\* UnitExecute with the connection of a failed insert kept out of the pool.
UnitExecuteLeaksOnError(u) ==
  /\ pc = "collect"
  /\ units[u].st = "executing"
  /\ LET answer == StoreInsert(table, schema, InsertValuesText(units[u].record)) IN
       \/ /\ answer.ok
          /\ table' = [table EXCEPT !.rows = @ \o
                         [k \in 1..Len(answer.rows) |-> [by |-> u, vals |-> answer.rows[k]]]]
          /\ units' = [units EXCEPT ![u].st = "ok"]
          /\ results' = Append(results, [unit |-> u, res |-> "ok"])
          /\ borrowed' = borrowed - 1
       \/ /\ units' = [units EXCEPT ![u].st = "failed"]
          /\ results' = Append(results, [unit |-> u, res |-> "QueryError"])
          /\ UNCHANGED <<table, borrowed>>
  /\ UNCHANGED <<csvFile, tableAtStart, outFile, poolSize, pc, schema, nextRec, ingest, outcome, error>>
  /\ UNCHANGED exportVars
  /\ UNCHANGED configVars

\* The insert of unit u returns: the statement is built from the record,
\* the store answers, the connection goes back to the pool.
UnitExecute(u) ==
  /\ pc = "collect"
  /\ units[u].st = "executing"
  /\ LET answer == StoreInsert(table, schema, InsertValuesText(units[u].record)) IN
       \/ /\ answer.ok
          /\ table' = [table EXCEPT !.rows = @ \o
                         [k \in 1..Len(answer.rows) |-> [by |-> u, vals |-> answer.rows[k]]]]
          /\ units' = [units EXCEPT ![u].st = "ok"]
          /\ results' = Append(results, [unit |-> u, res |-> "ok"])
       \/ /\ units' = [units EXCEPT ![u].st = "failed"]
          /\ results' = Append(results, [unit |-> u, res |-> "QueryError"])
          /\ UNCHANGED table
  /\ borrowed' = borrowed - 1
  /\ UNCHANGED <<csvFile, tableAtStart, outFile, poolSize, pc, schema, nextRec, ingest, outcome, error>>
  /\ UNCHANGED exportVars
  /\ UNCHANGED configVars

\* The first error of a result vector, "ok" when there is none.
RECURSIVE FirstError(_)
FirstError(rs) ==
  IF rs = <<>> THEN "ok"
  ELSE IF rs[1].res /= "ok" THEN rs[1].res
  ELSE FirstError(Tail(rs))

\* CollectDone as a join that does not wait for the futures still running.
CollectDoneEarly ==
  /\ pc = "collect"
  /\ LET first == FirstError(results) IN
       IF first = "ok"
       THEN /\ ingest' = "ok"
            /\ pc' = "check_output"
            /\ UNCHANGED <<outcome, error>>
       ELSE IngestFails(first)
  /\ UNCHANGED <<csvFile, tableAtStart, outFile, poolSize, borrowed, table, schema, nextRec, units, results>>
  /\ UNCHANGED exportVars
  /\ UNCHANGED configVars

\* CollectDone with the results dropped instead of walked.
CollectDoneIgnoresErrors ==
  /\ pc = "collect"
  /\ AllFinished
  /\ ingest' = "ok"
  /\ pc' = "check_output"
  /\ UNCHANGED <<outcome, error>>
  /\ UNCHANGED <<csvFile, tableAtStart, outFile, poolSize, borrowed, table, schema, nextRec, units, results>>
  /\ UNCHANGED exportVars
  /\ UNCHANGED configVars

\* CollectDone as a fail-fast join (try_collect): the first Err ends it.
CollectDoneFailFast ==
  /\ pc = "collect"
  /\ AllFinished \/ FirstError(results) /= "ok"
  /\ LET first == FirstError(results) IN
       IF first = "ok"
       THEN /\ ingest' = "ok"
            /\ pc' = "check_output"
            /\ UNCHANGED <<outcome, error>>
       ELSE IngestFails(first)
  /\ UNCHANGED <<csvFile, tableAtStart, outFile, poolSize, borrowed, table, schema, nextRec, units, results>>
  /\ UNCHANGED exportVars
  /\ UNCHANGED configVars

\* collect() resolves once every future has; `for result ... { result?; }`
CollectDone ==
  /\ pc = "collect"
  /\ AllFinished
  /\ LET first == FirstError(results) IN
       IF first = "ok"
       THEN /\ ingest' = "ok"
            /\ pc' = "check_output"
            /\ UNCHANGED <<outcome, error>>
       ELSE IngestFails(first)
  /\ UNCHANGED <<csvFile, tableAtStart, outFile, poolSize, borrowed, table, schema, nextRec, units, results>>
  /\ UNCHANGED exportVars
  /\ UNCHANGED configVars

\* create_table as CREATE TABLE IF NOT EXISTS with no drop before it.
create_table_if_not_exists ==
  \/ /\ pc = "drop"
     /\ pc' = "create"
     /\ UNCHANGED <<csvFile, tableAtStart, outFile, poolSize, borrowed, table, schema, nextRec,
                    units, results, ingest, outcome, error>>
     /\ UNCHANGED exportVars
     /\ UNCHANGED configVars
  \/ /\ pc = "create"
     /\ \/ /\ ~HasDuplicates(schema)
           /\ table' = IF table.exists THEN table
                       ELSE [exists |-> TRUE, cols |-> schema, rows |-> <<>>]
           /\ pc' = "records"
           /\ UNCHANGED <<ingest, outcome, error>>
        \/ /\ IngestFails("QueryError")
           /\ UNCHANGED table
     /\ borrowed' = borrowed - 1
     /\ UNCHANGED <<csvFile, tableAtStart, outFile, poolSize, schema, nextRec, units, results>>
     /\ UNCHANGED exportVars
     /\ UNCHANGED configVars

\* Schema::create_table: the drop, then the create.
create_table == DropTable \/ CreateTable

Ingestion ==
  \/ ReadHeaders
  \/ AcquireForTable
  \/ create_table
  \/ ReadRecord
  \/ StartCollect
  \/ \E u \in 1..Len(units) : UnitAcquire(u)
  \/ \E u \in 1..Len(units) : UnitAcquireFails(u)
  \/ \E u \in 1..Len(units) : UnitExecute(u)
  \/ CollectDone

\* ----------------------------------------------------------- query results
\* A result cell is a typed value; a result row has column names and cells.
Cell(ty, val) == [ty |-> ty, val |-> val]

rowAlice == [cols |-> <<"id", "name">>, cells |-> <<Cell("INT4", 1), Cell("TEXT", "alice")>>]
rowBob == [cols |-> <<"id", "name">>, cells |-> <<Cell("INT4", 2), Cell("TEXT", "bob")>>]
rowFlag == [cols |-> <<"flag">>, cells |-> <<Cell("BOOL", 1)>>]

ResultRows == {rowAlice, rowBob, rowFlag}

OkItem(row) == [ok |-> TRUE, row |-> row]
ErrItem == [ok |-> FALSE, row |-> [cols |-> <<>>, cells |-> <<>>]]

CursorItems == {OkItem(r) : r \in ResultRows} \cup {ErrItem}

\* The values a query can return, one of each type the decoder knows and
\* three it does not.  A FLOAT4 or FLOAT8 value counts halves (3 is 1.5),
\* a NUMERIC value is its digits and its scale, "NULL" is a null value of
\* any type (every decode of it is an UnexpectedNullError).
DecodeCells ==
  {Cell("TEXT", "alice"), Cell("VARCHAR", "007"), Cell("INT4", 7), Cell("INT8", 8),
   Cell("FLOAT4", 3), Cell("FLOAT8", 4), Cell("NUMERIC", [digits |-> 15, scale |-> 1]),
   Cell("BOOL", 1), Cell("BYTEA", 0), Cell("NULL", 0)}

DecodeRows ==
  {[cols |-> <<"c">>, cells |-> <<c>>] : c \in DecodeCells}
    \cup {[cols |-> <<"c", "d">>, cells |-> <<Cell("INT8", 8), c>>] : c \in DecodeCells}

DecodeItems == {OkItem(r) : r \in DecodeRows} \cup {ErrItem}

\* f32::to_string / f64::to_string of h halves, h >= 0
RenderFloat(h) == IF h % 2 = 0 THEN ToString(h \div 2) ELSE ToString(h \div 2) \o ".5"

\* Decimal::to_string: the digits with the point `scale` places from the right
RenderDecimal(d) ==
  IF d.scale = 0 THEN ToString(d.digits)
  ELSE ToString(d.digits \div 10) \o "." \o ToString(d.digits % 10)

\* value.try_decode::<T>() succeeds when the value's type is T's type.
TryDecode(cell, target) ==
  \/ target = "str" /\ cell.ty \in {"TEXT", "VARCHAR"}
  \/ target = "i32" /\ cell.ty = "INT4"
  \/ target = "i64" /\ cell.ty = "INT8"
  \/ target = "f32" /\ cell.ty = "FLOAT4"
  \/ target = "f64" /\ cell.ty = "FLOAT8"
  \/ target = "Decimal" /\ cell.ty = "NUMERIC"

\* DecodedValue::from with an empty text where the code panics.
DecodedValueLenient(cell) ==
  IF TryDecode(cell, "str") THEN [ok |-> TRUE, text |-> cell.val]
  ELSE IF TryDecode(cell, "i32") THEN [ok |-> TRUE, text |-> ToString(cell.val)]
  ELSE IF TryDecode(cell, "i64") THEN [ok |-> TRUE, text |-> ToString(cell.val)]
  ELSE IF TryDecode(cell, "f32") THEN [ok |-> TRUE, text |-> RenderFloat(cell.val)]
  ELSE IF TryDecode(cell, "f64") THEN [ok |-> TRUE, text |-> RenderFloat(cell.val)]
  ELSE IF TryDecode(cell, "Decimal") THEN [ok |-> TRUE, text |-> RenderDecimal(cell.val)]
  ELSE [ok |-> TRUE, text |-> ""]

\* DecodedValue::from: the first interpretation that succeeds, as text;
\* ok is FALSE where the code panics.
DecodedValue(cell) ==
  IF TryDecode(cell, "str") THEN [ok |-> TRUE, text |-> cell.val]
  ELSE IF TryDecode(cell, "i32") THEN [ok |-> TRUE, text |-> ToString(cell.val)]
  ELSE IF TryDecode(cell, "i64") THEN [ok |-> TRUE, text |-> ToString(cell.val)]
  ELSE IF TryDecode(cell, "f32") THEN [ok |-> TRUE, text |-> RenderFloat(cell.val)]
  ELSE IF TryDecode(cell, "f64") THEN [ok |-> TRUE, text |-> RenderFloat(cell.val)]
  ELSE IF TryDecode(cell, "Decimal") THEN [ok |-> TRUE, text |-> RenderDecimal(cell.val)]
  ELSE [ok |-> FALSE, text |-> ""]

HeaderRecord(row) == [kind |-> "header", fields |-> row.cols]

DecodedRow(row) ==
  [kind |-> "row", fields |-> [i \in 1..Len(row.cells) |-> DecodedValue(row.cells[i]).text]]

Decodable(row) == \A i \in 1..Len(row.cells) : DecodedValue(row.cells[i]).ok

\* ------------------------------------------------------------- the cursor
IsOk(item) == item.ok

\* The rows the cursor has yielded, in yield order.
RowsYielded == SelectSeq(yielded, IsOk)

\* Row k of the table as a result row: VARCHAR cells under the table's columns.
TableRow(k) ==
  [cols |-> table.cols,
   cells |-> [j \in 1..Len(table.rows[k].vals) |-> Cell("VARCHAR", table.rows[k].vals[j])]]

TableItems == {OkItem(TableRow(k)) : k \in 1..Len(table.rows)}

\* CursorYields over a store that returns the newest row first.
CursorYieldsNewestFirst(item) ==
  IF query = "select_all"
  THEN /\ \A i \in 1..Len(yielded) : yielded[i].ok
       /\ \/ item = ErrItem
          \/ /\ Len(yielded) < Len(table.rows)
             /\ item = OkItem(TableRow(Len(table.rows) - Len(yielded)))
  ELSE Len(yielded) < MaxResult

\* Can the cursor yield this item next?  SELECT * FROM data yields the
\* rows of the table in the order they were stored, or fails and ends;
\* another query yields anything, up to MaxResult items.
CursorYields(item) ==
  IF query = "select_all"
  THEN /\ \A i \in 1..Len(yielded) : yielded[i].ok
       /\ \/ item = ErrItem
          \/ /\ Len(yielded) < Len(table.rows)
             /\ item = OkItem(TableRow(Len(yielded) + 1))
  ELSE Len(yielded) < MaxResult

\* Can the cursor end now?
CursorEnds ==
  query = "select_all" =>
    \/ \E i \in 1..Len(yielded) : ~yielded[i].ok
    \/ Len(yielded) = Len(table.rows)

\* -------------------------------------------------------------- run: query
\* `?` in run after read_csv: run returns the error, its connection is dropped.
RunFails(kind) ==
  /\ outcome' = "err"
  /\ error' = kind
  /\ pc' = "done"

\* if csv_output.exists() { bail!("Delete existing file first") }
CheckOutput ==
  /\ pc = "check_output"
  /\ IF outFile /= "absent"
     THEN RunFails("Delete existing file first")
     ELSE /\ pc' = "prompt"
          /\ UNCHANGED <<outcome, error>>
  /\ UNCHANGED <<outFile, borrowed>>
  /\ UNCHANGED ingestVars
  /\ UNCHANGED exportVars
  /\ UNCHANGED configVars

\* self.io.prompt("Enter SQL query")?
PromptQuery ==
  /\ pc = "prompt"
  /\ \/ /\ pc' = "acquire_query"
        /\ query' \in {"select_all", "other"}
        /\ UNCHANGED <<outcome, error>>
     \/ /\ RunFails("IoError")
        /\ UNCHANGED query
  /\ UNCHANGED <<outFile, borrowed>>
  /\ UNCHANGED ingestVars
  /\ UNCHANGED configVars
  /\ UNCHANGED <<exporter, yielded, sink, rowErr, ret>>

\* Another process creates the destination after the check of line 88.
EnvCreatesOutput ==
  /\ pc \in {"prompt", "acquire_query", "open"}
  /\ outFile = "absent"
  /\ outFile' = "old"
  /\ UNCHANGED <<borrowed, pc, outcome, error>>
  /\ UNCHANGED ingestVars
  /\ UNCHANGED exportVars
  /\ UNCHANGED configVars

\* self.connection_pool.acquire().await? and the lazy fetch
AcquireForQuery ==
  /\ pc = "acquire_query"
  /\ \/ /\ borrowed < poolSize
        /\ borrowed' = borrowed + 1
        /\ pc' = "open"
        /\ UNCHANGED <<outcome, error>>
     \/ /\ RunFails("ConnectionError")
        /\ UNCHANGED borrowed
  /\ UNCHANGED outFile
  /\ UNCHANGED ingestVars
  /\ UNCHANGED exportVars
  /\ UNCHANGED configVars

\* OpenOutput placed after the first pull: a run over an empty result
\* returns before it opens the destination.
OpenOutputAfterFirstRow ==
  /\ pc = "open"
  /\ IF outFile = "absent"
     THEN /\ exporter' = "write_csv"
          /\ pc' = "pull_first"
          /\ UNCHANGED <<outFile, borrowed, outcome, error>>
     ELSE /\ RunFails("AlreadyExists")
          /\ borrowed' = borrowed - 1
          /\ UNCHANGED <<outFile, exporter>>
  /\ UNCHANGED <<yielded, sink, rowErr, ret>>
  /\ UNCHANGED ingestVars
  /\ UNCHANGED configVars
  /\ UNCHANGED query

\* OpenOutput with create(true).truncate(true) in place of create_new(true).
OpenOutputTruncates ==
  /\ pc = "open"
  /\ outFile' = "new"
  /\ exporter' = "write_csv"
  /\ pc' = "pull_first"
  /\ UNCHANGED <<borrowed, outcome, error>>
  /\ UNCHANGED <<yielded, sink, rowErr, ret>>
  /\ UNCHANGED ingestVars
  /\ UNCHANGED configVars
  /\ UNCHANGED query

\* write_csv: OpenOptions::new().write(true).create_new(true).open(csv_output)?
OpenOutput ==
  /\ pc = "open"
  /\ IF outFile = "absent"
     THEN /\ outFile' = "new"
          /\ exporter' = "write_csv"
          /\ pc' = "pull_first"
          /\ UNCHANGED <<borrowed, outcome, error>>
     ELSE /\ RunFails("AlreadyExists")
          /\ borrowed' = borrowed - 1
          /\ UNCHANGED <<outFile, exporter>>
  /\ UNCHANGED <<yielded, sink, rowErr, ret>>
  /\ UNCHANGED ingestVars
  /\ UNCHANGED configVars
  /\ UNCHANGED query

\* output_query_results: the writer wraps the sink its caller hands in.
WrapSink ==
  /\ pc = "open"
  /\ exporter' = "output_query_results"
  /\ pc' = "pull_first"
  /\ UNCHANGED <<outFile, borrowed, outcome, error, yielded, sink, rowErr, ret>>
  /\ UNCHANGED ingestVars
  /\ UNCHANGED configVars
  /\ UNCHANGED query

\* PullFirstNone returning Ok(true).
PullFirstNoneReturnsTrue ==
  /\ pc = "pull_first"
  /\ CursorEnds
  /\ ret' = "true"
  /\ pc' = "report"
  /\ UNCHANGED <<outFile, borrowed, outcome, error, exporter, yielded, sink, rowErr>>
  /\ UNCHANGED ingestVars
  /\ UNCHANGED configVars
  /\ UNCHANGED query

\* let first_row = match next().await { Some(row) => row?, None => return Ok(false) }
\* on an exhausted cursor: the writer returns Ok(false) to run.
PullFirstNone ==
  /\ pc = "pull_first"
  /\ CursorEnds
  /\ ret' = "false"
  /\ pc' = "report"
  /\ UNCHANGED <<outFile, borrowed, outcome, error, exporter, yielded, sink, rowErr>>
  /\ UNCHANGED ingestVars
  /\ UNCHANGED configVars
  /\ UNCHANGED query

PullFirstSome(item) ==
  /\ pc = "pull_first"
  /\ CursorYields(item)
  /\ yielded' = Append(yielded, item)
  /\ IF item.ok
     THEN /\ pc' = "write_header"
          /\ UNCHANGED <<borrowed, outcome, error>>
     ELSE /\ RunFails("QueryError")
          /\ borrowed' = borrowed - 1
  /\ UNCHANGED <<outFile, exporter, sink, rowErr, ret>>
  /\ UNCHANGED ingestVars
  /\ UNCHANGED configVars
  /\ UNCHANGED query

\* WriteHeader with the header taken from the ingestion Schema.
WriteHeaderFromSchema ==
  /\ pc = "write_header"
  /\ sink' = Append(sink, [kind |-> "header", fields |-> schema])
  /\ pc' = "write_row"
  /\ UNCHANGED <<outFile, borrowed, outcome, error, exporter, yielded, rowErr, ret>>
  /\ UNCHANGED ingestVars
  /\ UNCHANGED configVars
  /\ UNCHANGED query

\* csv_output.write_record(first_row.columns() ... column.name())
WriteHeader ==
  /\ pc = "write_header"
  /\ sink' = Append(sink, HeaderRecord(yielded[1].row))
  /\ pc' = "write_row"
  /\ UNCHANGED <<outFile, borrowed, outcome, error, exporter, yielded, rowErr, ret>>
  /\ UNCHANGED ingestVars
  /\ UNCHANGED configVars
  /\ UNCHANGED query

\* write_row_to_csv / output_query_result_row for the row pulled last.
WriteRow ==
  /\ pc = "write_row"
  /\ LET row == yielded[Len(yielded)].row IN
       IF Decodable(row)
       THEN /\ sink' = Append(sink, DecodedRow(row))
            /\ pc' = "pull_next"
            /\ UNCHANGED <<outcome, error>>
       ELSE /\ outcome' = "panic"
            /\ error' = "No determinable value"
            /\ pc' = "done"
            /\ UNCHANGED sink
  /\ UNCHANGED <<outFile, borrowed, exporter, yielded, rowErr, ret>>
  /\ UNCHANGED ingestVars
  /\ UNCHANGED configVars
  /\ UNCHANGED query

\* The cursor is exhausted.  write_csv then walks the collected results
\* and returns the first Err; output_query_results returns Ok(true).
PullNextNone ==
  /\ pc = "pull_next"
  /\ CursorEnds
  /\ IF rowErr = "none"
     THEN /\ ret' = "true"
          /\ pc' = "report"
          /\ UNCHANGED <<borrowed, outcome, error>>
     ELSE /\ RunFails(rowErr)
          /\ borrowed' = borrowed - 1
          /\ UNCHANGED ret
  /\ UNCHANGED <<outFile, exporter, yielded, sink, rowErr>>
  /\ UNCHANGED ingestVars
  /\ UNCHANGED configVars
  /\ UNCHANGED query

\* The cursor yields one more item.  An Err item ends output_query_results
\* (`row?` in the while loop); in write_csv it becomes one collected result
\* and the stream is pulled on.
PullNextSome(item) ==
  /\ pc = "pull_next"
  /\ CursorYields(item)
  /\ yielded' = Append(yielded, item)
  /\ IF item.ok
     THEN /\ pc' = "write_row"
          /\ UNCHANGED <<borrowed, outcome, error, rowErr>>
     ELSE IF exporter = "write_csv"
     THEN /\ rowErr' = IF rowErr = "none" THEN "QueryError" ELSE rowErr
          /\ UNCHANGED <<pc, borrowed, outcome, error>>
     ELSE /\ RunFails("QueryError")
          /\ borrowed' = borrowed - 1
          /\ UNCHANGED rowErr
  /\ UNCHANGED <<outFile, exporter, sink, ret>>
  /\ UNCHANGED ingestVars
  /\ UNCHANGED configVars
  /\ UNCHANGED query

\* self.io.write_output(if any_results { ... } else { ... })?; Ok(())
Report ==
  /\ pc = "report"
  /\ outcome' = "ok"
  /\ pc' = "done"
  /\ borrowed' = borrowed - 1
  /\ UNCHANGED <<outFile, error>>
  /\ UNCHANGED ingestVars
  /\ UNCHANGED exportVars
  /\ UNCHANGED configVars

Export ==
  \/ CheckOutput
  \/ PromptQuery
  \/ EnvCreatesOutput
  \/ AcquireForQuery
  \/ OpenOutput
  \/ WrapSink
  \/ PullFirstNone
  \/ \E item \in CursorItems \cup TableItems : PullFirstSome(item)
  \/ WriteHeader
  \/ WriteRow
  \/ PullNextNone
  \/ \E item \in CursorItems \cup TableItems : PullNextSome(item)
  \/ Report

Next == Ingestion \/ Export

Spec == Init /\ [][Next]_vars

\* The run under a scheduler that polls every future that can progress, a
\* store whose round trips return and a pool that hands a free connection
\* to a waiting unit.  An acquire that resolves to an error is possible,
\* never forced.
SpecFair ==
  /\ Init
  /\ [][Next]_vars
  /\ WF_vars(ReadHeaders \/ AcquireForTable \/ create_table \/ ReadRecord \/ StartCollect \/ CollectDone)
  /\ \A u \in 1..MaxRows :
       /\ WF_vars(u <= Len(units) /\ UnitAcquire(u))
       /\ WF_vars(u <= Len(units) /\ UnitExecute(u))

\* ------------------------------------------------------- one run after another
\* The program is started again on the same input and the same store: the
\* table and the destination file are as the run before left them, unless
\* the operator has deleted the file in between.
StartNextRun ==
  /\ pc = "done"
  /\ LET left == IF outFile = "new"
                 THEN (IF sink = <<>> THEN "empty" ELSE "old")
                 ELSE outFile IN
       outFile' \in {left, "absent"}
  /\ tableAtStart' = table
  /\ borrowed' = 0
  /\ pc' = "headers"
  /\ schema' = <<>>
  /\ nextRec' = 1
  /\ units' = <<>>
  /\ results' = <<>>
  /\ ingest' = "none"
  /\ outcome' = "running"
  /\ error' = "none"
  /\ exporter' = "none"
  /\ yielded' = <<>>
  /\ sink' = <<>>
  /\ rowErr' = "none"
  /\ query' = "none"
  /\ ret' = "none"
  /\ UNCHANGED <<csvFile, poolSize, table>>
  /\ UNCHANGED configVars

InitRerun ==
  /\ csvFile \in [header : {Rec(<<"a">>)}, records : {<<>>, <<Rec(<<fx>>)>>}]
  /\ outFile = "absent"
  /\ poolSize \in 1..MaxPool
  /\ borrowed = 0
  /\ table = NoTable
  /\ tableAtStart = table
  /\ pc = "headers"
  /\ schema = <<>>
  /\ nextRec = 1
  /\ units = <<>>
  /\ results = <<>>
  /\ ingest = "none"
  /\ outcome = "running"
  /\ error = "none"
  /\ exporter = "none"
  /\ yielded = <<>>
  /\ sink = <<>>
  /\ rowErr = "none"
  /\ query = "none"
  /\ ret = "none"
  /\ ConfigUnused

NextRerun == Ingestion \/ Export \/ StartNextRun

SpecRerun == InitRerun /\ [][NextRerun]_vars

\* ------------------------------------------------- the export writer alone
\* The export writer on entry, after a run that ingested the source "a"
\* with no record, its cursor yielding any of DecodeItems.
InitDecode ==
  /\ csvFile = [header |-> Rec(<<"a">>), records |-> <<>>]
  /\ exporter \in {"write_csv", "output_query_results"}
  /\ outFile = IF exporter = "write_csv" THEN "new" ELSE "absent"
  /\ poolSize \in 1..MaxPool
  /\ borrowed = 1
  /\ table = [exists |-> TRUE, cols |-> <<"a">>, rows |-> <<>>]
  /\ tableAtStart = NoTable
  /\ pc = "pull_first"
  /\ schema = <<"a">>
  /\ nextRec = 1
  /\ units = <<>>
  /\ results = <<>>
  /\ ingest = "ok"
  /\ outcome = "running"
  /\ error = "none"
  /\ yielded = <<>>
  /\ sink = <<>>
  /\ rowErr = "none"
  /\ query = "other"
  /\ ret = "none"
  /\ ConfigUnused

NextDecode ==
  \/ PullFirstNone
  \/ \E item \in DecodeItems : PullFirstSome(item)
  \/ WriteHeader
  \/ WriteRow
  \/ PullNextNone
  \/ \E item \in DecodeItems : PullNextSome(item)
  \/ Report

SpecDecode == InitDecode /\ [][NextDecode]_vars

\* ------------------------------------------------------------- config.rs
MaxUrl == 2
MaxCalls == 3

UrlChars == {"a", "\"", "\\"}

Configs == [postgres_url : UNION {[1..n -> UrlChars] : n \in 0..MaxUrl}]

\* The escape ron writes for one character of a string.
EscapeChar(c) ==
  IF c = "\"" THEN <<"\\", "\"">>
  ELSE IF c = "\\" THEN <<"\\", "\\">>
  ELSE <<c>>

RECURSIVE Escaped(_)
Escaped(str) ==
  IF str = <<>> THEN <<>> ELSE EscapeChar(Head(str)) \o Escaped(Tail(str))

\* to_string_pretty writing the string as it is between the quotes.
to_string_pretty_raw(config) ==
  <<"(", "\n", " ", " ", " ", " ", "postgres_url", ":", " ", "\"">>
    \o config.postgres_url \o <<"\"", ",", "\n", ")">>

\* ron::ser::to_string_pretty(&self, PrettyConfig::default()): the text as
\* a sequence of characters, the field name as one token.
to_string_pretty(config) ==
  <<"(", "\n", " ", " ", " ", " ", "postgres_url", ":", " ", "\"">>
    \o Escaped(config.postgres_url) \o <<"\"", ",", "\n", ")">>

RECURSIVE SkipWs(_)
SkipWs(t) ==
  IF t /= <<>> /\ Head(t) \in {" ", "\n"} THEN SkipWs(Tail(t)) ELSE t

StartsWith(t, c) == t /= <<>> /\ Head(t) = c

\* The string after its opening quote: [ok, val, rest].
RECURSIVE ParseEscaped(_, _)
ParseEscaped(t, acc) ==
  IF t = <<>> THEN [ok |-> FALSE, val |-> <<>>, rest |-> <<>>]
  ELSE IF Head(t) = "\"" THEN [ok |-> TRUE, val |-> acc, rest |-> Tail(t)]
  ELSE IF Head(t) = "\\"
  THEN IF Len(t) >= 2 /\ t[2] \in {"\"", "\\"}
       THEN ParseEscaped(SubSeq(t, 3, Len(t)), Append(acc, t[2]))
       ELSE [ok |-> FALSE, val |-> <<>>, rest |-> <<>>]
  ELSE ParseEscaped(Tail(t), Append(acc, Head(t)))

ParseFails == [ok |-> FALSE, config |-> DefaultConfig]

\* ron::from_str::<Config>: "(", the one field, an optional trailing
\* comma, ")", with white space between the tokens.
from_str(text) ==
  LET t1 == SkipWs(text) IN
  IF ~StartsWith(t1, "(") THEN ParseFails ELSE
  LET t2 == SkipWs(Tail(t1)) IN
  IF ~StartsWith(t2, "postgres_url") THEN ParseFails ELSE
  LET t3 == SkipWs(Tail(t2)) IN
  IF ~StartsWith(t3, ":") THEN ParseFails ELSE
  LET t4 == SkipWs(Tail(t3)) IN
  IF ~StartsWith(t4, "\"") THEN ParseFails ELSE
  LET str == ParseEscaped(Tail(t4), <<>>) IN
  IF ~str.ok THEN ParseFails ELSE
  LET t5 == SkipWs(str.rest)
      t6 == IF StartsWith(t5, ",") THEN SkipWs(Tail(t5)) ELSE t5 IN
  IF ~StartsWith(t6, ")") THEN ParseFails ELSE
  IF SkipWs(Tail(t6)) /= <<>> THEN ParseFails
  ELSE [ok |-> TRUE, config |-> [postgres_url |-> str.val]]

\* What may be at the config path before the first call: nothing, an
\* empty file, or the text of a configuration.
PathStates ==
  {NoFile} \cup {[exists |-> TRUE, text |-> t] : t \in {<<>>} \cup {to_string_pretty(c) : c \in Configs}}

InitConfig ==
  /\ path \in PathStates
  /\ configPc = "idle"
  /\ writing = DefaultConfig
  /\ written = [res |-> "none", config |-> DefaultConfig]
  /\ loaded = [res |-> "none", config |-> DefaultConfig]
  /\ calls = 0
  /\ csvFile = [header |-> Rec(<<"a">>), records |-> <<>>]
  /\ outFile = "absent"
  /\ poolSize = 1
  /\ borrowed = 0
  /\ table = NoTable
  /\ tableAtStart = NoTable
  /\ pc = "headers"
  /\ schema = <<>>
  /\ nextRec = 1
  /\ units = <<>>
  /\ results = <<>>
  /\ ingest = "none"
  /\ outcome = "running"
  /\ error = "none"
  /\ exporter = "none"
  /\ yielded = <<>>
  /\ sink = <<>>
  /\ rowErr = "none"
  /\ query = "none"
  /\ ret = "none"

\* Config::load
load ==
  /\ configPc = "idle"
  /\ calls < MaxCalls
  /\ IF path.exists
     THEN \/ LET config == from_str(path.text) IN
               loaded' = IF config.ok
                         THEN [res |-> "Some", config |-> config.config]
                         ELSE [res |-> "ParseError", config |-> DefaultConfig]
          \/ loaded' = [res |-> "IoError", config |-> DefaultConfig]
     ELSE loaded' = [res |-> "None", config |-> DefaultConfig]
  /\ calls' = calls + 1
  /\ UNCHANGED <<path, configPc, writing, written>>
  /\ UNCHANGED runVars

\* Config::write_to, to the end of open(path).await?
write_to_open(config) ==
  /\ configPc = "idle"
  /\ calls < MaxCalls
  /\ IF path.exists
     THEN /\ written' = [res |-> "AlreadyExists", config |-> config]
          /\ calls' = calls + 1
          /\ UNCHANGED <<path, configPc, writing>>
     ELSE /\ path' = [exists |-> TRUE, text |-> <<>>]
          /\ writing' = config
          /\ configPc' = "opened"
          /\ UNCHANGED <<written, calls>>
  /\ UNCHANGED loaded
  /\ UNCHANGED runVars

\* Config::write_to, from write_all to its return.
write_to_flush ==
  /\ configPc = "opened"
  /\ \/ /\ path' = [path EXCEPT !.text = to_string_pretty(writing)]
        /\ written' = [res |-> "ok", config |-> writing]
     \/ /\ written' = [res |-> "IoError", config |-> writing]
        /\ UNCHANGED path
  /\ configPc' = "idle"
  /\ writing' = DefaultConfig
  /\ calls' = calls + 1
  /\ UNCHANGED loaded
  /\ UNCHANGED runVars

write_to == (\E config \in Configs : write_to_open(config)) \/ write_to_flush

NextConfig == load \/ write_to

SpecConfig == InitConfig /\ [][NextConfig]_vars

\* ----------------------------------------------------------------- claims
Unfinished == {u \in 1..Len(units) : ~Finished(units[u].st)}

\* The query is being executed, or has been: its connection is acquired,
\* the stream is being pulled, or the writer has returned.
QueryPhase ==
  \/ pc \in {"acquire_query", "open", "pull_first", "write_header", "write_row",
             "pull_next", "report"}
  \/ exporter /= "none"
  \/ yielded /= <<>>

\* C1: Completion Barrier.  Whenever the operator's query is executing (or
\* about to, or has), no ingestion unit is pending or in flight: one unit
\* exists per record of the source and every one of them has finished.
C1_CompletionBarrier ==
  QueryPhase => /\ Unfinished = {}
                /\ Len(units) = Len(csvFile.records)
                /\ Len(results) = Len(units)

\* The query is pulled after two units finished in the order 2, 1.
C1_Witness ==
  /\ pc = "pull_first"
  /\ Len(results) = 2
  /\ results[1].unit = 2

\* A record csv::Reader cannot parse, or one whose field count is not the header's.
BadRecord(r) == ~r.ok \/ Len(r.fields) /= Len(csvFile.header.fields)

AnyUnitFailed == \E u \in 1..Len(units) : units[u].st = "failed"

IngestionFailed ==
  \/ ingest \notin {"none", "ok"}
  \/ AnyUnitFailed
  \/ csvFile.header.ok /\ \E i \in 1..Len(csvFile.records) : BadRecord(csvFile.records[i])

\* C2: when ingestion fails (a unit fails, a record does not parse, or a
\* record's field count is not the schema's), the query is never executed
\* and the run ends with the failure.
C2_FailureStopsQuery ==
  IngestionFailed => /\ ~QueryPhase
                     /\ ingest /= "ok"
                     /\ pc = "done" => outcome \in {"err", "panic"} /\ error /= "none"

\* The run has ended on the failure of an insert unit, another unit having succeeded.
C2_Witness ==
  /\ pc = "done"
  /\ AnyUnitFailed
  /\ \E u \in 1..Len(units) : units[u].st = "ok"
  /\ outcome = "err"

\* C3: at most poolSize inserts are in flight; during the collect every
\* other unit that has not finished waits for a connection, and the
\* connections out of the pool are those of the inserts in flight.
C3_PoolBoundsInserts ==
  /\ Cardinality(InFlight) <= poolSize
  /\ borrowed <= poolSize
  /\ pc = "collect" =>
       /\ borrowed = Cardinality(InFlight)
       /\ \A u \in Unfinished \ InFlight : units[u].st = "waiting"

\* More units than connections: one insert in flight, the other unit waiting.
C3_Witness ==
  /\ poolSize = 1
  /\ Len(units) = 2
  /\ units[2].st = "executing"
  /\ units[1].st = "waiting"

\* The index of the first Err of a result vector, 0 when there is none.
FirstFailure(rs) ==
  IF \E i \in 1..Len(rs) : rs[i].res /= "ok"
  THEN CHOOSE i \in 1..Len(rs) : rs[i].res /= "ok" /\ \A j \in 1..(i - 1) : rs[j].res = "ok"
  ELSE 0

\* C4: collect-all.  The step that ends the collect is taken only when every
\* dispatched unit has finished and has its result in the vector; the
\* ingestion result is then the first failure in completion order, or
\* success when no unit failed.  Until then a unit is never taken out of
\* the collect other than by finishing.
C4_CollectAll ==
  [][/\ (pc = "collect" /\ pc' /= "collect") =>
          /\ Unfinished = {}
          /\ Len(results) = Len(units)
          /\ \A u \in 1..Len(units) : \E i \in 1..Len(results) : results[i].unit = u
          /\ ingest' = IF FirstFailure(results) = 0 THEN "ok"
                       ELSE results[FirstFailure(results)].res
     /\ (pc = "collect" /\ pc' = "collect") =>
          /\ Len(units') = Len(units)
          /\ \A u \in 1..Len(units) :
               units'[u].st /= units[u].st =>
                 \/ units[u].st = "waiting" /\ units'[u].st \in {"executing", "failed"}
                 \/ units[u].st = "executing" /\ units'[u].st \in {"ok", "failed"}
    ]_vars

\* Unit 1 failed first, unit 2 then ran to its end and its row is stored;
\* the ingestion result is the failure of unit 1.
C4_Witness ==
  /\ Len(results) = 2
  /\ results[1] = [unit |-> 1, res |-> "ConnectionError"]
  /\ results[2] = [unit |-> 2, res |-> "ok"]
  /\ ingest = "ConnectionError"
  /\ \E k \in 1..Len(table.rows) : table.rows[k].by = 2

\* ------------------------------------------------ claims about the table
NumRows == Len(csvFile.records)

QuoteFree(field) == \A i \in 1..Len(field) : field[i] /= "'"

\* No field of the source holds a single quote.
DatasetQuoteFree ==
  \A i \in 1..NumRows : \A j \in 1..Len(csvFile.records[i].fields) :
    QuoteFree(csvFile.records[i].fields[j])

RowsBy(u) == {k \in 1..Len(table.rows) : table.rows[k].by = u}

\* The table has the header's columns in order and, for each record of the
\* source, one row with the record's fields in order, and no other row.
TableIsDataset ==
  /\ table.exists
  /\ table.cols = csvFile.header.fields
  /\ Len(table.rows) = NumRows
  /\ \A u \in 1..NumRows :
       /\ Cardinality(RowsBy(u)) = 1
       /\ \A k \in RowsBy(u) : table.rows[k].vals = csvFile.records[u].fields

\* C5 as stated: for every dataset, a successful ingestion leaves exactly
\* the dataset in the table: K columns in header order, N rows, each record
\* stored once with its i-th field in the i-th column.
C5_AsStated == ingest = "ok" => TableIsDataset

\* C5 amended: the same for every dataset none of whose fields holds a
\* single quote, in whatever order the insert units completed.
C5_QuoteFreeDatasetStored == (ingest = "ok" /\ DatasetQuoteFree) => TableIsDataset

\* Two two-field records were stored, the second one first.
C5_Witness ==
  /\ ingest = "ok"
  /\ DatasetQuoteFree
  /\ csvFile.header.fields = <<"a", "b">>
  /\ NumRows = 2
  /\ Len(table.rows) = 2
  /\ table.rows[1].by = 2

\* Some record of the source parses but has not the header's field count.
HasBadLength ==
  /\ csvFile.header.ok
  /\ \E i \in 1..NumRows :
       csvFile.records[i].ok /\ Len(csvFile.records[i].fields) /= Len(csvFile.header.fields)

\* C6: a dataset with a record whose field count is not the header's never
\* ingests successfully: read_csv never returns Ok, the run never ends Ok
\* and, once ended, it has ended with an error or a panic.
C6_BadLengthNeverSucceeds ==
  HasBadLength => /\ ingest /= "ok"
                  /\ outcome /= "ok"
                  /\ pc = "done" => ingest \notin {"none", "ok"} /\ outcome \in {"err", "panic"}

\* The run ended on a record with a wrong field count, after a good record.
C6_Witness ==
  /\ pc = "done"
  /\ ingest = "ParseError"
  /\ Len(units) = 1
  /\ nextRec = 2
  /\ csvFile.records[2].ok
  /\ Len(csvFile.records[2].fields) /= Len(schema)

\* The table holds the schema's columns, one row per record of the source,
\* and nothing an earlier run stored.
TableReplaced ==
  /\ table.exists
  /\ table.cols = schema
  /\ Len(table.rows) = NumRows
  /\ \A k \in 1..Len(table.rows) : table.rows[k].by /= 0

\* C7 as stated: a successful ingestion over the table of an earlier run
\* leaves exactly the N rows of this run, for every source.
C7_AsStated == (ingest = "ok" /\ tableAtStart.exists) => TableReplaced

\* C7 amended: the same for every source none of whose fields holds a
\* single quote.
C7_QuoteFreeRerunReplaces ==
  (ingest = "ok" /\ tableAtStart.exists /\ DatasetQuoteFree) => TableReplaced

\* The source "a / x" was ingested over the table an earlier run of the
\* same source left.
C7_Witness ==
  /\ ingest = "ok"
  /\ tableAtStart = [exists |-> TRUE, cols |-> <<"a">>, rows |-> <<[by |-> 0, vals |-> <<fx>>]>>]
  /\ csvFile = [header |-> Rec(<<"a">>), records |-> <<Rec(<<fx>>)>>]
  /\ table.rows = <<[by |-> 1, vals |-> <<fx>>]>>

\* ----------------------------------------------- claims about the export
\* C8: what has been written is the header built from the first yielded
\* row's column names, once and first, then the decoded yielded rows, one
\* each, in yield order; every yielded row is written before the next pull
\* and before the writer returns.
C8_ExportOrder ==
  /\ Len(sink) <= Len(RowsYielded) + 1
  /\ sink /= <<>> => yielded[1].ok /\ sink[1] = HeaderRecord(yielded[1].row)
  /\ \A i \in 2..Len(sink) : sink[i] = DecodedRow(RowsYielded[i - 1].row)
  /\ (yielded /= <<>> /\ pc \in {"pull_next", "report"}) => Len(sink) = Len(RowsYielded) + 1
  /\ ret = "true" => Len(sink) = Len(RowsYielded) + 1

\* The cursor yielded bob, then alice; the header and both rows are written in that order.
C8_Witness ==
  /\ ret = "true"
  /\ yielded = <<OkItem(rowBob), OkItem(rowAlice)>>
  /\ sink = <<[kind |-> "header", fields |-> <<"id", "name">>],
              [kind |-> "row", fields |-> <<"2", "bob">>],
              [kind |-> "row", fields |-> <<"1", "alice">>]>>

\* C9: the writer returns false exactly when the cursor yielded nothing,
\* and then nothing was written; it returns true only after the header
\* and at least one row were written and no item was an error.
C9_EmptyResult ==
  /\ ret = "false" => sink = <<>> /\ yielded = <<>>
  /\ ret = "true" => /\ Len(sink) >= 2
                     /\ sink[1].kind = "header"
                     /\ sink[2].kind = "row"
                     /\ \A i \in 1..Len(yielded) : yielded[i].ok
  /\ pc = "report" => ret = IF yielded = <<>> THEN "false" ELSE "true"

\* write_csv returned false on an empty cursor and the run ended Ok.
C9_Witness ==
  /\ pc = "done"
  /\ outcome = "ok"
  /\ exporter = "write_csv"
  /\ ret = "false"
  /\ sink = <<>>

\* C10: while the destination exists the file export does not start: the
\* file is left as it is, write_csv never gets past its open, nothing is
\* pulled from the cursor or written, and the run can only end in failure.
C10_DestinationGuard ==
  [][outFile = "old" =>
       /\ outFile' = "old"
       /\ exporter' /= "write_csv"
       /\ exporter' = "none" => /\ sink' = <<>>
                                /\ yielded' = <<>>
                                /\ pc' \notin {"pull_first", "write_header", "write_row",
                                               "pull_next", "report"}
                                /\ pc' = "done" => outcome' \in {"err", "panic"}
    ]_vars

\* The destination appeared after the check of run; create_new refused it.
C10_Witness ==
  /\ pc = "done"
  /\ ingest = "ok"
  /\ outFile = "old"
  /\ error = "AlreadyExists"
  /\ yielded = <<>>
  /\ sink = <<>>

\* ---------------------------------------------- claims about the decoder
Precedence == <<"str", "i32", "i64", "f32", "f64", "Decimal">>

\* The first interpretation of Precedence that decodes the cell, "none" when none does.
FirstTarget(cell) ==
  IF \E k \in 1..Len(Precedence) : TryDecode(cell, Precedence[k])
  THEN Precedence[CHOOSE k \in 1..Len(Precedence) :
                    /\ TryDecode(cell, Precedence[k])
                    /\ \A j \in 1..(k - 1) : ~TryDecode(cell, Precedence[j])]
  ELSE "none"

\* The text of a value under an interpretation: text as it is, a number
\* in its canonical form.
Rendering(target, val) ==
  CASE target = "str" -> val
    [] target \in {"i32", "i64"} -> ToString(val)
    [] target \in {"f32", "f64"} -> RenderFloat(val)
    [] target = "Decimal" -> RenderDecimal(val)

Undecodable(row) == \E j \in 1..Len(row.cells) : FirstTarget(row.cells[j]) = "none"

\* C11: every field written is the rendering of its value under the first
\* interpretation, in the order text, i32, i64, f32, f64, decimal, that
\* decodes it; a row with a value none of them decodes is never written:
\* once it is pulled the writer can only panic, leaving the sink as it was.
C11_DecoderPrecedence ==
  /\ \A i \in 2..Len(sink) :
       LET row == RowsYielded[i - 1].row IN
         /\ ~Undecodable(row)
         /\ Len(sink[i].fields) = Len(row.cells)
         /\ \A j \in 1..Len(row.cells) :
              sink[i].fields[j] = Rendering(FirstTarget(row.cells[j]), row.cells[j].val)
  /\ \A i \in 1..Len(RowsYielded) :
       Undecodable(RowsYielded[i].row) =>
         /\ i = Len(RowsYielded)
         /\ Len(sink) <= i
         /\ pc \in {"write_header", "write_row", "done"}
         /\ pc = "done" => outcome = "panic"

\* A row with an INT8 and a NUMERIC value was written as "8" and "1.5".
C11_Witness ==
  /\ Len(sink) = 2
  /\ yielded[1].row.cells = <<Cell("INT8", 8), Cell("NUMERIC", [digits |-> 15, scale |-> 1])>>
  /\ sink[2].fields = <<"8", "1.5">>

\* The writer panicked on a BOOL value in the second row; the first row stays written.
C11_WitnessPanic ==
  /\ outcome = "panic"
  /\ Len(yielded) = 2
  /\ yielded[2].row.cells = <<Cell("BOOL", 1)>>
  /\ Len(sink) = 2

\* ------------------------------------------ claims about the overlapping
\* C12: ingestion runs in the background of the prompt for the query: while
\* insert units are pending the operator can be prompted, the await of the
\* ingestion outcome before the query being the only rendezvous.
C12_PromptOverlapsIngestion ==
  (pc = "collect" /\ Unfinished /= {}) => ENABLED PromptQuery

\* ------------------------------ the two-row dataset of the worked example
f1 == <<"1">>
f2 == <<"2">>
falice == <<"a", "l", "i", "c", "e">>
fbob == <<"b", "o", "b">>

IdNameFile ==
  [header |-> Rec(<<"id", "name">>),
   records |-> <<Rec(<<f1, falice>>), Rec(<<f2, fbob>>)>>]

\* A run over the file id,name / 1,alice / 2,bob.
InitIdName ==
  /\ csvFile = IdNameFile
  /\ outFile \in {"absent", "old"}
  /\ poolSize \in 1..MaxPool
  /\ borrowed = 0
  /\ table \in PriorTables
  /\ tableAtStart = table
  /\ pc = "headers"
  /\ schema = <<>>
  /\ nextRec = 1
  /\ units = <<>>
  /\ results = <<>>
  /\ ingest = "none"
  /\ outcome = "running"
  /\ error = "none"
  /\ exporter = "none"
  /\ yielded = <<>>
  /\ sink = <<>>
  /\ rowErr = "none"
  /\ query = "none"
  /\ ret = "none"
  /\ ConfigUnused

SpecIdName == InitIdName /\ [][Next]_vars

IdNameHeaderOut == [kind |-> "header", fields |-> <<"id", "name">>]
AliceOut == [kind |-> "row", fields |-> <<f1, falice>>]
BobOut == [kind |-> "row", fields |-> <<f2, fbob>>]

\* The export of SELECT * FROM data has been written to the end.
SelectAllExported == query = "select_all" /\ ret = "true"

QuoteUrl == [postgres_url |-> <<"a", "\"">>]

\* C14: a load that follows a successful write_to(c) returns Some(c), the
\* read not failing; a load of a path that does not exist returns None; a
\* write_to on a path that exists fails and leaves the file as it was.
C14_ConfigRoundTrip ==
  [][/\ (load /\ written.res = "ok") =>
          /\ loaded'.res \in {"Some", "IoError"}
          /\ loaded'.res = "Some" => loaded'.config = written.config
     /\ (load /\ ~path.exists) => loaded'.res = "None"
     /\ (write_to /\ configPc = "idle" /\ path.exists) =>
          /\ written'.res = "AlreadyExists"
          /\ path' = path
    ]_vars

\* a" was written to a path that did not exist and loaded back.
C14_Witness ==
  /\ calls = 2
  /\ written = [res |-> "ok", config |-> QuoteUrl]
  /\ loaded = [res |-> "Some", config |-> QuoteUrl]

\* A load found nothing at the path.
C14_WitnessNone == loaded.res = "None"

\* A write_to found a file at the path and left it there.
C14_WitnessExists ==
  /\ written.res = "AlreadyExists"
  /\ path.text = to_string_pretty(QuoteUrl)

\* ------------------------------------------------- claims about termination
\* C15: under fair scheduling the ingestion ends, for a pool of one
\* connection as for a larger one: the connection of the schema block is
\* back in the pool before the first record is read, every dispatched unit
\* leaves the wait for a connection and finishes, and read_csv returns.
C15_IngestionTerminates ==
  /\ [](pc = "records" => borrowed = 0)
  /\ \A u \in 1..MaxRows :
       (u <= Len(units) /\ units[u].st = "waiting") ~> (u <= Len(units) /\ Finished(units[u].st))
  /\ <>(ingest /= "none")

\* Two units over a pool of one connection have both stored their row and
\* read_csv has returned.
C15_Witness ==
  /\ poolSize = 1
  /\ Len(units) = 2
  /\ \A u \in 1..2 : units[u].st = "ok"
  /\ ingest = "ok"

\* --------------------------------------- claims about parsing and inserts
\* C16: parsing and insert execution overlap: while a later record is
\* still to be parsed, a unit dispatched for an earlier record is running
\* or can start.
C16_ParsingOverlapsInserts ==
  (pc = "records" /\ units /= <<>> /\ nextRec <= Len(csvFile.records)) =>
    \E u \in 1..Len(units) :
      \/ units[u].st /= "created"
      \/ ENABLED UnitAcquire(u)

\* ------------------------------------------- claims about the provisioning
\* The drop or the create was rejected: read_csv failed on a statement
\* with no unit pushed.
DdlRejected == ingest = "QueryError" /\ units = <<>>

\* C17: the create runs on a store whose table the drop has removed, and
\* a unit is pushed only once the table is created with the columns of the
\* schema; a rejected drop or create ends the run with that error, with no
\* unit pushed then or later and the query neither asked for nor executed.
C17_ProvisioningFirst ==
  /\ [](pc = "create" => ~table.exists)
  /\ [](units /= <<>> => table.exists /\ table.cols = schema)
  /\ [][(pc \in {"drop", "create"} /\ pc' = "done") =>
         (ingest' = "QueryError" /\ outcome' = "err" /\ error' = "QueryError" /\ units' = <<>>)]_vars
  /\ [](DdlRejected => pc = "done" /\ query = "none" /\ exporter = "none" /\ yielded = <<>>)
  /\ [][pc = "done" => UNCHANGED <<units, query, exporter, yielded, table>>]_vars

\* The table of an earlier run was dropped, the create with the columns
\* a, a was rejected, and the record of the source was never dispatched.
C17_Witness ==
  /\ DdlRejected
  /\ tableAtStart.exists
  /\ ~table.exists
  /\ csvFile.header.fields = <<"a", "a">>
  /\ csvFile.records /= <<>>

\* C18: no unit leaves the state it was pushed in before every record of
\* the source is parsed and checked; when read_csv fails on a record, the
\* units of the records before it have never run and the table created by
\* this run has no row.
C18_NoInsertBeforeLastRecord ==
  /\ (\E u \in 1..Len(units) : units[u].st /= "created") => nextRec > Len(csvFile.records)
  /\ (ingest = "ParseError" /\ csvFile.header.ok) =>
       /\ BadRecord(csvFile.records[nextRec])
       /\ \A u \in 1..Len(units) : units[u].st = "created"
       /\ results = <<>>
       /\ table = [exists |-> TRUE, cols |-> schema, rows |-> <<>>]

\* The second record is malformed: the unit of the first was pushed and
\* dropped, over a store that held a row of an earlier run.
C18_Witness ==
  /\ ingest = "ParseError"
  /\ Len(units) = 1
  /\ ~csvFile.records[2].ok
  /\ tableAtStart.rows /= <<>>
  /\ table.rows = <<>>

\* ---------------------------------------------- claims about the connections
\* C19: no connection is leaked: the connection of the schema block is
\* back before the first record is read, a unit that finishes an insert,
\* stored or rejected, gives its connection back in that step, so once all
\* units have finished and from the return of read_csv to the acquire for
\* the query no connection is out, and that acquire finds one free; none
\* is out when run has returned.
C19_NoConnectionLeak ==
  /\ [](pc = "records" => borrowed = 0)
  /\ [][\A u \in 1..Len(units) :
          (units[u].st = "executing" /\ Finished(units'[u].st)) => borrowed' = borrowed - 1]_vars
  /\ []((pc = "collect" /\ AllFinished) => borrowed = 0)
  /\ [](pc \in {"check_output", "prompt", "acquire_query"} => borrowed = 0)
  /\ [](pc = "acquire_query" => borrowed < poolSize)
  /\ []((pc = "done" /\ outcome /= "panic") => borrowed = 0)

\* Over a pool of one connection both inserts ran, one of them rejected
\* by the store, and the connection is back.
C19_Witness ==
  /\ poolSize = 1
  /\ pc = "collect"
  /\ Len(results) = 2
  /\ \E u \in 1..2 : results[u].res = "QueryError"
  /\ \E u \in 1..2 : results[u].res = "ok"
  /\ borrowed = 0

\* After two inserts over a pool of one connection the query holds the connection.
C19_WitnessQuery ==
  /\ poolSize = 1
  /\ Len(units) = 2
  /\ pc = "open"
  /\ borrowed = 1

\* ------------------------------------------ claims about the leftover file
\* The export ended on its first pull: no row, or the query rejected.
NothingExported ==
  /\ exporter = "write_csv"
  /\ \/ ret = "false"
     \/ pc = "done" /\ yielded = <<ErrItem>>

\* C20: when write_csv pulls the first row the destination file exists, empty,
\* and stays so when the cursor yields no row or the query is rejected; a
\* run started afterwards on the same input finds the file and ends on the
\* guard, without a query, as long as the file has not been deleted.
C20_EmptyFileBlocksNextRun ==
  /\ []((pc = "pull_first" /\ exporter = "write_csv") => outFile = "new" /\ sink = <<>>)
  /\ [](NothingExported => outFile = "new" /\ sink = <<>>)
  /\ [][(StartNextRun /\ NothingExported) => outFile' \in {"empty", "absent"}]_vars
  /\ [][(pc = "check_output" /\ outFile = "empty") =>
         (pc' = "done" /\ outcome' = "err" /\ error' = "Delete existing file first")]_vars
  /\ [](outFile = "empty" => query = "none" /\ exporter = "none" /\ sink = <<>>)

\* The run after an empty export has ended on the guard.
C20_Witness ==
  /\ outFile = "empty"
  /\ pc = "done"
  /\ error = "Delete existing file first"

====
